---- MODULE Spec2Model ----
(***************************************************************************)
(* A model of QuakeQuery (src/360QuakeForCMD.py, src/quake_query.py): one  *)
(* run of main (request, display, export, success message, process exit)  *)
(* and export_to_excel called repeatedly as a library function.            *)
(*                                                                         *)
(* Strings are sequences of one-character strings.  A JSON response is a   *)
(* record saying which keys it has; a data item is a record whose "svc"    *)
(* field says how much of item["service"]["http"]["host"] exists.          *)
(***************************************************************************)
EXTENDS Integers, Sequences, FiniteSets, TLC

VARIABLES
    prog,            \* which of the two scripts runs: "360QuakeForCMD" or "quake_query"
    pc,              \* position of the run: main, display, export, announce, returned, raised, exited, lib
    search,          \* args.search (the query term)
    size,            \* args.size
    page,            \* args.page
    net,             \* what the network did with the POST ("none" before it)
    posts,           \* the request bodies handed to requests.post, in order
    search_results,  \* the parsed response perform_search returned
    console,         \* what was printed, in order
    table,           \* the rows of the PrettyTable that was printed (<<>> before)
    files,           \* the working directory: file name -> rows of the sheet
    raised,          \* the exception that is propagating ("none" when none)
    exit_status,     \* the status of the process (-1 while it runs)
    events           \* the order of the run's effects: request, table, export, success

vars == <<prog, pc, search, size, page, net, posts, search_results, console, table, files,
          raised, exit_status, events>>

----------------------------------------------------------------------------
(* Bounds of the model. *)

MaxData == 2
MaxTermLen == 2
MaxCalls == 2

----------------------------------------------------------------------------
(* Input domains. *)

\* Characters a query term is built from: one ordinary character and the
\* three characters export_to_excel replaces.
Chars == {"a", " ", ":", "\""}

RECURSIVE SeqsUpTo(_, _)
SeqsUpTo(S, n) ==
    IF n = 0 THEN {<<>>}
    ELSE LET shorter == SeqsUpTo(S, n - 1)
         IN  shorter \cup {Append(s, x) : s \in {t \in shorter : Len(t) = n - 1}, x \in S}

Terms == SeqsUpTo(Chars, MaxTermLen)

\* argparse gives --size and --page as the int default or as the string typed.
IntVal(n) == [t |-> "int", n |-> n, s |-> <<>>]
StrVal(s) == [t |-> "str", n |-> 0, s |-> s]

Sizes == {IntVal(100), IntVal(7), StrVal(<<"5">>)}
Pages == {IntVal(1), StrVal(<<"2">>)}

\* The data items of a response, by how much of service.http.host they have.
Items ==
    { [svc |-> "absent", host |-> "",      ip |-> "1.1.1.1", port |-> 80],
      [svc |-> "nohttp", host |-> "",      ip |-> "2.2.2.2", port |-> 22],
      [svc |-> "nohost", host |-> "",      ip |-> "3.3.3.3", port |-> 81],
      [svc |-> "host",   host |-> "a.com", ip |-> "4.4.4.4", port |-> 443],
      [svc |-> "host",   host |-> "b.com", ip |-> "5.5.5.5", port |-> 8080] }

Responses ==
    { [pagination |-> p, hasData |-> d, data |-> xs] :
        p \in BOOLEAN, d \in BOOLEAN, xs \in SeqsUpTo(Items, MaxData) }
    \ { r \in [pagination : BOOLEAN, hasData : {FALSE}, data : SeqsUpTo(Items, MaxData)] :
          r.data # <<>> }

NoResponse == [pagination |-> FALSE, hasData |-> FALSE, data |-> <<>>]

\* What the network and the server can do with one POST.
Outcomes == {"conn_error", "http_error", "bad_json", "ok"}

Progs == {"360QuakeForCMD", "quake_query"}

----------------------------------------------------------------------------
(* Strings. *)

Digit(d) == <<"0", "1", "2", "3", "4", "5", "6", "7", "8", "9">>[d + 1]

\* str(n) of a non-negative int: its decimal digits, most significant first.
RECURSIVE Decimal(_)
Decimal(n) == IF n < 10 THEN <<Digit(n)>> ELSE Append(Decimal(n \div 10), Digit(n % 10))

\* str(v): an int becomes its decimal form, a str is itself.
Str(v) == IF v.t = "str" THEN StrVal(v.s) ELSE StrVal(Decimal(v.n))

\* s.replace(old, new) for a one-character old.
RECURSIVE Replace(_, _, _)
Replace(s, old, new) ==
    IF s = <<>> THEN <<>>
    ELSE (IF Head(s) = old THEN new ELSE <<Head(s)>>) \o Replace(Tail(s), old, new)

----------------------------------------------------------------------------
(* Console lines and effects. *)

Line(kind, arg) == [msg |-> kind, arg |-> arg]

\* An effect of the run; exc is the exception the step ended with.
Event(kind, exc, name, rows) == [ev |-> kind, exc |-> exc, name |-> name, rows |-> rows]

----------------------------------------------------------------------------
(* perform_search *)

\* Mutant: the size goes into the body as it came, without str().
Payload_RawSize(query, result_count, start_page) ==
    [query |-> query, start |-> start_page, size |-> result_count]

Payload(query, result_count, start_page) ==
    [query |-> query, start |-> start_page, size |-> Str(result_count)]

\* Mutant: the except clause prints the message and does not re-raise.
OnRequestException_Swallow(con) ==
    [console |-> Append(con, Line("api_error", <<>>)), raised |-> "none"]

\* The except clause: print the message, re-raise.
OnRequestException(con) ==
    [console |-> Append(con, Line("api_error", <<>>)), raised |-> "RequestException"]

\* One call: one POST, then raise_for_status and json.loads on what came back.
Search(query, result_count, start_page, outcome, resp, con) ==
    LET sent == <<Payload(query, result_count, start_page)>>
    IN  IF outcome \in {"conn_error", "http_error"}
        THEN LET h == OnRequestException(con)
             IN  [sent |-> sent, console |-> h.console, raised |-> h.raised, ret |-> NoResponse]
        ELSE IF outcome = "bad_json"
        THEN [sent |-> sent, console |-> con, raised |-> "JSONDecodeError", ret |-> NoResponse]
        ELSE [sent |-> sent, console |-> con, raised |-> "none", ret |-> resp]

----------------------------------------------------------------------------
(* display_results *)

\* item["service"], item["service"]["http"], item["service"]["http"]["host"] exist.
HasService(item) == item.svc # "absent"
HasHttp(item) == item.svc \in {"nohost", "host"}
HasHost(item) == item.svc = "host"

\* Mutant: the row is added without the "http" test (as quake_query.py does).
Guard_Unguarded(p, item) == TRUE

\* Mutant: the test is inverted.
Guard_Inverted(p, item) == IF p = "360QuakeForCMD" THEN ~HasHttp(item) ELSE TRUE

\* The guard of the loop body: 360QuakeForCMD.py tests "http" in item["service"],
\* quake_query.py adds the row unguarded.
Guard(p, item) == IF p = "360QuakeForCMD" THEN HasHttp(item) ELSE TRUE

Row(index, item) == <<index, item.host, item.ip, item.port>>

\* The for loop from item i on: rows added so far, lines printed so far.
RECURSIVE DisplayLoop(_, _, _, _, _)
DisplayLoop(p, data, i, rows, con) ==
    IF i > Len(data) THEN [rows |-> rows, console |-> con, raised |-> "none"]
    ELSE LET item == data[i]
         IN  IF ~HasService(item)
             THEN [rows |-> rows, console |-> con, raised |-> "KeyError"]
             ELSE IF Guard(p, item)
             THEN IF HasHost(item)
                  THEN DisplayLoop(p, data, i + 1, Append(rows, Row(i, item)), con)
                  ELSE [rows |-> rows, console |-> con, raised |-> "KeyError"]
             ELSE DisplayLoop(p, data, i + 1, rows, Append(con, Line("warning", <<i>>)))

Display(p, api_response, query_term, con) ==
    LET con1 == Append(con, Line("blank", <<>>))
        con2 == con1 \o <<Line("pagination", <<>>), Line("query", query_term)>>
    IN  IF ~api_response.pagination
        THEN [rows |-> <<>>, console |-> con1, raised |-> "KeyError", printed |-> FALSE]
        ELSE IF ~api_response.hasData
        THEN [rows |-> <<>>, console |-> con2, raised |-> "KeyError", printed |-> FALSE]
        ELSE LET r == DisplayLoop(p, api_response.data, 1, <<>>, con2)
             IN  IF r.raised # "none"
                 THEN [rows |-> <<>>, console |-> r.console, raised |-> r.raised,
                       printed |-> FALSE]
                 ELSE [rows |-> r.rows, console |-> Append(r.console, Line("table", <<>>)),
                       raised |-> "none", printed |-> TRUE]

----------------------------------------------------------------------------
(* export_to_excel *)

\* The list comprehension: a record per item, or KeyError at the first item
\* that has no service.http.host.
RECURSIVE Records(_, _, _)
Records(data, i, rows) ==
    IF i > Len(data) THEN [rows |-> rows, raised |-> "none"]
    ELSE IF HasHost(data[i])
         THEN Records(data, i + 1, Append(rows, Row(i, data[i])))
         ELSE [rows |-> rows, raised |-> "KeyError"]

\* Mutant: the double quotes are left in the name.
FileName_KeepsQuote(query_term) ==
    <<"quake_results_">>
    \o Replace(Replace(query_term, " ", <<"_">>), ":", <<>>)
    \o <<".xlsx">>

FileName(query_term) ==
    <<"quake_results_">>
    \o Replace(Replace(Replace(query_term, " ", <<"_">>), ":", <<>>), "\"", <<>>)
    \o <<".xlsx">>

\* Mutant: the rows are appended to the file that is already there.
WriteFile_Append(fs, name, rows) ==
    [n \in DOMAIN fs \cup {name} |->
        IF n = name THEN (IF n \in DOMAIN fs THEN fs[n] \o rows ELSE rows) ELSE fs[n]]

\* df.to_excel(file_path): the file of that name now holds these rows.
WriteFile(fs, name, rows) ==
    [n \in DOMAIN fs \cup {name} |-> IF n = name THEN rows ELSE fs[n]]

Export(api_response, query_term, fsOK, fs, con) ==
    LET name == FileName(query_term)
        fail(exc, n) == [files |-> fs, console |-> con, raised |-> exc, name |-> n]
    IN  IF ~api_response.hasData THEN fail("KeyError", <<>>)
        ELSE LET r == Records(api_response.data, 1, <<>>)
             IN  IF r.raised # "none" THEN fail(r.raised, <<>>)
                 ELSE IF ~fsOK THEN fail("OSError", name)
                 ELSE [files |-> WriteFile(fs, name, r.rows),
                       console |-> Append(con, Line("exported", name)),
                       raised |-> "none", name |-> name]

----------------------------------------------------------------------------
(* main *)

\* The name main builds for its own message.
AnnouncedName(term) ==
    <<"quake_results_">>
    \o Replace(Replace(Replace(term, " ", <<"_">>), ":", <<>>), "\"", <<>>)
    \o <<".xlsx">>

\* Mutant: main goes on to the export although display_results raised.
AfterDisplay_Continue(p, exc) ==
    IF p = "360QuakeForCMD" THEN "export" ELSE "returned"

\* What main does next when display_results ended with exc: an exception
\* propagates, otherwise 360QuakeForCMD.py exports and quake_query.py returns.
AfterDisplay(p, exc) ==
    IF exc # "none" THEN "raised"
    ELSE IF p = "360QuakeForCMD" THEN "export" ELSE "returned"

NoFiles == [n \in {} |-> <<>>]

Init ==
    /\ prog \in Progs
    /\ pc = "main"
    /\ search \in Terms
    /\ size \in Sizes
    /\ page \in Pages
    /\ net = "none"
    /\ posts = <<>>
    /\ search_results = NoResponse
    /\ console = <<>>
    /\ table = <<>>
    /\ files = NoFiles
    /\ raised = "none"
    /\ exit_status = -1
    /\ events = <<>>

\* main, "if args.search:" taken: the call of perform_search.
perform_search ==
    /\ pc = "main"
    /\ search # <<>>
    /\ \E outcome \in Outcomes :
       \E resp \in (IF outcome = "ok" THEN Responses ELSE {NoResponse}) :
          LET r == Search(search, size, page, outcome, resp, console)
          IN  /\ posts' = posts \o r.sent
              /\ net' = outcome
              /\ events' = events \o [i \in 1..Len(r.sent) |->
                                          Event("request", r.raised, <<>>, <<>>)]
              /\ console' = r.console
              /\ raised' = r.raised
              /\ search_results' = r.ret
              /\ pc' = IF r.raised = "none" THEN "display" ELSE "raised"
    /\ UNCHANGED <<prog, search, size, page, table, files, exit_status>>

\* main, the else branch: the usage hint.
usage ==
    /\ pc = "main"
    /\ search = <<>>
    /\ console' = Append(console, Line("usage", <<>>))
    /\ pc' = "returned"
    /\ UNCHANGED <<prog, search, size, page, net, posts, search_results, table, files,
                   raised, exit_status, events>>

display_results ==
    /\ pc = "display"
    /\ LET r == Display(prog, search_results, search, console)
       IN  /\ console' = r.console
           /\ table' = r.rows
           /\ raised' = r.raised
           /\ events' = IF r.printed
                        THEN Append(events, Event("table", "none", <<>>, r.rows))
                        ELSE events
           /\ pc' = AfterDisplay(prog, r.raised)
    /\ UNCHANGED <<prog, search, size, page, net, posts, search_results, files, exit_status>>

\* One call of export_to_excel; the file system accepts the write or not.
ExportCall(next) ==
    \E fsOK \in BOOLEAN :
       LET r == Export(search_results, search, fsOK, files, console)
       IN  /\ files' = r.files
           /\ console' = r.console
           /\ raised' = r.raised
           /\ events' = Append(events,
                               Event("export", r.raised, r.name,
                                     IF r.name \in DOMAIN r.files THEN r.files[r.name] ELSE <<>>))
           /\ pc' = IF r.raised = "none" THEN next ELSE "raised"

export_to_excel ==
    /\ pc = "export"
    /\ ExportCall("announce")
    /\ UNCHANGED <<prog, search, size, page, net, posts, search_results, table, exit_status>>

\* main's own message after export_to_excel returned.
announce ==
    /\ pc = "announce"
    /\ console' = Append(console, Line("success", AnnouncedName(search)))
    /\ events' = Append(events, Event("success", "none", AnnouncedName(search), <<>>))
    /\ pc' = "returned"
    /\ UNCHANGED <<prog, search, size, page, net, posts, search_results, table, files,
                   raised, exit_status>>

\* The interpreter ends the process: status 0 when main returned, a traceback
\* and status 1 when an exception reached the top.
process_exit ==
    /\ pc \in {"returned", "raised"}
    /\ console' = IF pc = "raised" THEN Append(console, Line("traceback", <<raised>>))
                  ELSE console
    /\ exit_status' = IF pc = "raised" THEN 1 ELSE 0
    /\ pc' = "exited"
    /\ UNCHANGED <<prog, search, size, page, net, posts, search_results, table, files,
                   raised, events>>

Next ==
    \/ perform_search
    \/ usage
    \/ display_results
    \/ export_to_excel
    \/ announce
    \/ process_exit

Spec == Init /\ [][Next]_vars

----------------------------------------------------------------------------
(* export_to_excel called by a caller of the class, several times in a row *)
(* with the same response and query term.                                  *)

InitLib ==
    /\ prog = "360QuakeForCMD"
    /\ pc = "lib"
    /\ search \in Terms
    /\ size = IntVal(100)
    /\ page = IntVal(1)
    /\ net = "none"
    /\ posts = <<>>
    /\ search_results \in Responses
    /\ console = <<>>
    /\ table = <<>>
    /\ files = NoFiles
    /\ raised = "none"
    /\ exit_status = -1
    /\ events = <<>>

export_again ==
    /\ pc = "lib"
    /\ Len(events) < MaxCalls
    /\ ExportCall("lib")
    /\ UNCHANGED <<prog, search, size, page, net, posts, search_results, table, exit_status>>

NextLib == export_again

SpecExport == InitLib /\ [][NextLib]_vars

----------------------------------------------------------------------------
(* Vocabulary of the properties, read off the state alone. *)

Printed(kind) == \E i \in 1..Len(console) : console[i].msg = kind

Lines(kind) == SelectSeq(console, LAMBDA m : m.msg = kind)

Happened(kind) == \E i \in 1..Len(events) : events[i].ev = kind

\* display_results has started: its first print is there.
Displayed == Printed("blank")

Data == search_results.data

Positions(shapes) == {i \in 1..Len(Data) : Data[i].svc \in shapes}

\* The response has the pagination block and the data array.
Shaped == search_results.pagination /\ search_results.hasData

\* The rows of exactly the items at the positions idx, in the order of data.
RowsOf(rows, idx) ==
    /\ Len(rows) = Cardinality(idx)
    /\ {rows[k][1] : k \in 1..Len(rows)} = idx
    /\ \A k \in 1..Len(rows) :
          /\ rows[k] = <<rows[k][1], Data[rows[k][1]].host, Data[rows[k][1]].ip,
                         Data[rows[k][1]].port>>
          /\ k > 1 => rows[k - 1][1] < rows[k][1]

\* The file export_to_excel wrote in this run, if it wrote one.
Exported == \E i \in 1..Len(events) : events[i].ev = "export" /\ events[i].exc = "none"

ExportEvents == SelectSeq(events, LAMBDA e : e.ev = "export")

----------------------------------------------------------------------------
----------------------------------------------------------------------------
\* C2: export_to_excel leaves the items without service.http out of the
\* records, still writes the file, and the file has one data row per item
\* that has the sub-structure.
C2_ExportSkipsItemsWithoutHttp ==
    (prog = "360QuakeForCMD" /\ Happened("export") /\ Shaped
       /\ Positions({"absent", "nohost"}) = {})
    => /\ raised \in {"none", "OSError"}
       /\ Exported => /\ files # NoFiles
                      /\ \A n \in DOMAIN files :
                            Len(files[n]) = Cardinality(Positions({"host"}))

----------------------------------------------------------------------------
\* C3: when the POST cannot complete or the answer is not 2xx, perform_search
\* raises the transport error after that one request, and the run prints no
\* table and writes no file.
C3_TransportErrorPropagates ==
    net \in {"conn_error", "http_error"}
    => /\ raised = "RequestException"
       /\ pc \in {"raised", "exited"}
       /\ Len(posts) = 1
       /\ ~Printed("table")
       /\ table = <<>>
       /\ files = NoFiles
       /\ pc = "exited" => exit_status = 1

C3_Witness == net = "conn_error" /\ pc = "exited" /\ Printed("api_error")

----------------------------------------------------------------------------
\* C4: one call of perform_search sends exactly one POST, whose size is the
\* string form of page_size and whose query and start are the arguments.

CharValue(c) == CHOOSE d \in 0..9 : <<"0", "1", "2", "3", "4", "5", "6", "7", "8", "9">>[d + 1] = c

RECURSIVE ParseDecimal(_)
ParseDecimal(s) ==
    IF s = <<>> THEN 0
    ELSE 10 * ParseDecimal(SubSeq(s, 1, Len(s) - 1)) + CharValue(s[Len(s)])

C4_OneRequestSizeAsString ==
    /\ Len(posts) = (IF net = "none" THEN 0 ELSE 1)
    /\ search = <<>> => posts = <<>>
    /\ posts # <<>> =>
          /\ posts[1].query = search
          /\ posts[1].start = page
          /\ posts[1].size.t = "str"
          /\ posts[1].size.s # <<>>
          /\ size.t = "str" => posts[1].size.s = size.s
          /\ size.t = "int" => /\ ParseDecimal(posts[1].size.s) = size.n
                               /\ (Len(posts[1].size.s) > 1 => posts[1].size.s[1] # "0")

C4_Witness == Len(posts) = 1 /\ size.t = "int" /\ net = "http_error" /\ pc = "exited"

----------------------------------------------------------------------------
\* C5: when every item has service.http.host, the printed table and the
\* written sheet both have len(data) rows and no warning is printed.
C5_AllItemsGiveRows ==
    (Shaped /\ Positions({"host"}) = 1..Len(Data))
    => /\ Displayed => /\ Printed("table")
                       /\ Len(table) = Len(Data)
                       /\ ~Printed("warning")
       /\ Happened("export") => raised \in {"none", "OSError"}
       /\ Exported => /\ files # NoFiles
                      /\ \A n \in DOMAIN files : Len(files[n]) = Len(Data)

C5_Witness ==
    /\ pc = "exited"
    /\ exit_status = 0
    /\ Len(Data) = 2
    /\ Len(table) = 2
    /\ Exported

----------------------------------------------------------------------------
\* C6: with a valid pagination block, one item without a usable HTTP
\* sub-structure (no service key, or an http object without host) is skipped
\* and the table with the rows of the other items is still printed.
C6_MalformedItemNeverAborts ==
    (prog = "360QuakeForCMD" /\ Displayed /\ Shaped
       /\ Cardinality(Positions({"absent", "nohost"})) = 1
       /\ Positions({"nohttp"}) = {})
    => /\ Printed("table")
       /\ RowsOf(table, Positions({"host"}))

----------------------------------------------------------------------------
\* C7: every error of a run ends the process with a message on the console
\* and a non-zero status, and a run that only skipped rows ends normally
\* after display and export.
C7_ErrorsReportedSkipsAreNot ==
    pc = "exited"
    => /\ (\/ net \in {"conn_error", "http_error", "bad_json"}
           \/ (net = "ok" /\ ~Shaped)
           \/ raised = "OSError")
          => /\ exit_status # 0
             /\ Printed("api_error") \/ Printed("traceback")
       /\ (prog = "360QuakeForCMD" /\ net = "ok" /\ Shaped
             /\ Positions({"absent", "nohost"}) = {} /\ raised # "OSError")
          => /\ exit_status = 0
             /\ Printed("table")
             /\ Exported

----------------------------------------------------------------------------
\* C8: the file name is quake_results_ + the sanitized term + .xlsx, the
\* sanitized term (spaces replaced by underscores, colons and double quotes
\* removed) has no space, colon or double quote, and main announces the name
\* export_to_excel wrote.

Kept(term) == SelectSeq(term, LAMBDA c : c \notin {":", "\""})

Sanitized(term) == [k \in 1..Len(Kept(term)) |-> IF Kept(term)[k] = " " THEN "_" ELSE Kept(term)[k]]

C8_FileNameSanitized ==
    /\ \A i \in 1..Len(events) :
          (events[i].ev = "export" /\ events[i].exc \in {"none", "OSError"})
          => LET name == events[i].name
                 stem == SubSeq(name, 2, Len(name) - 1)
             IN  /\ Len(name) >= 2
                 /\ name[1] = "quake_results_"
                 /\ name[Len(name)] = ".xlsx"
                 /\ stem = Sanitized(search)
                 /\ \A k \in 1..Len(stem) : stem[k] \notin {" ", ":", "\""}
                 /\ events[i].exc = "none" => DOMAIN files = {name}
    /\ \A i \in 1..Len(events) :
          events[i].ev = "success"
          => /\ DOMAIN files = {events[i].name}
             /\ Lines("success") = <<Line("success", events[i].name)>>
             /\ Lines("exported") = <<Line("exported", events[i].name)>>

C8_Witness ==
    /\ Printed("success")
    /\ \E k \in 1..Len(search) : search[k] \in {" ", ":", "\""}
    /\ \E k \in 1..Len(search) : search[k] \notin {" ", ":", "\""}

----------------------------------------------------------------------------
----------------------------------------------------------------------------
\* C10: a run with a search term does request, display, export, success
\* message in that order, each step only after the one before it returned,
\* nothing after a step that raised; a run without a search term sends no
\* request, prints no table and writes no file.

Order == <<"request", "table", "export", "success">>

C10_StepsInOrder ==
    /\ Len(events) <= Len(Order)
    /\ \A i \in 1..Len(events) :
          /\ events[i].ev = Order[i]
          /\ events[i].exc # "none" => i = Len(events)
    /\ Len(posts) = Cardinality({i \in 1..Len(events) : events[i].ev = "request"})
    /\ Printed("table") <=> Happened("table")
    /\ files # NoFiles <=> Exported
    /\ Printed("success") <=> Happened("success")
    /\ Happened("table") => net = "ok"
    /\ (Displayed /\ ~Printed("table")) => ~Happened("export")
    /\ raised # "none" => ~Printed("success")
    /\ search = <<>> => /\ events = <<>>
                        /\ posts = <<>>
                        /\ files = NoFiles
                        /\ ~Displayed

C10_Witness ==
    /\ pc = "exited"
    /\ Len(events) = 4
    /\ Printed("success")

====
